---- MODULE Spec2Model ----
(***************************************************************************)
(* Architecture state of the network visualiser (src/src/App.jsx): the     *)
(* layer list and the selected layer index held by the App component, the  *)
(* callbacks that mutate them, the handlers of the controls LayerCard      *)
(* renders, the pure helper computeParams, the values App derives in its   *)
(* render, and the loss panel: its active loss, its hyperparameters and    *)
(* the effect that leaves a binary-only loss when K is not 2.              *)
(*                                                                         *)
(* JavaScript arrays are 0-based; layer indices in this module are the     *)
(* 0-based indices of the source, and At(s, i) reads element i of s.       *)
(***************************************************************************)
EXTENDS Integers, Sequences, FiniteSets, TLC

VARIABLES
    layers,   \* App state `layers`: sequence of [nodes, activation]
    sel,      \* App state `sel`: selected layer index (0-based)
    last,     \* history: the last command, its arguments and the state before it
    steps,    \* number of commands issued so far
    view,     \* values App derived in its last render: n, outputNodes, totals
    lossKey,  \* LossPanel state `lossKey`
    params    \* LossPanel state `params`, each value in units of its slider step

vars == <<layers, sel, last, steps, view, lossKey, params>>

lossVars == <<lossKey, params>>

\* ---------------------------------------------------------------- bounds
MaxSteps == 4
MaxCalls == 3
MaxDelta == 3

\* commands issued while the loss panel is exercised
MaxLossSteps == 4

\* add / remove commands issued, with the render in between or after
MaxBatchSteps == 4

\* ------------------------------------------------------------- constants
ACTIVATIONS == {"ReLU", "Sigmoid", "Tanh", "Linear"}
MAX_NODES == 8
MIN_NODES == 1
MAX_LAYERS == 6

Max(a, b) == IF a >= b THEN a ELSE b
Min(a, b) == IF a <= b THEN a ELSE b

At(s, i) == s[i + 1]

\* variant: output width 3 in the default architecture
defaultLayersWide ==
    << [nodes |-> 3, activation |-> "Linear"],
       [nodes |-> 5, activation |-> "ReLU"],
       [nodes |-> 4, activation |-> "Tanh"],
       [nodes |-> 3, activation |-> "Softmax"] >>

defaultLayers ==
    << [nodes |-> 3, activation |-> "Linear"],
       [nodes |-> 5, activation |-> "ReLU"],
       [nodes |-> 4, activation |-> "Tanh"],
       [nodes |-> 2, activation |-> "Softmax"] >>

\* ------------------------------------------------ values derived in render
\* variants: strict comparisons in the layer-count guards
isAtMaxLayersStrict(n) == n > MAX_LAYERS
isAtMinLayersStrict(n) == n < 3

isAtMaxLayers(n) == n >= MAX_LAYERS
isAtMinLayers(n) == n <= 3

isInput(index) == index = 0
isOutput(index, total) == index = total - 1

\* ------------------------------------------------------- pure state updates
\* variant: the new layer is pushed after the output layer
addLayerAtEnd(prev, atMax) ==
    IF atMax THEN prev
    ELSE Append(prev, [nodes |-> 4, activation |-> "ReLU"])

\* addLayer: early return on the guard, else splice(prev.length - 1, 0, new)
addLayer(prev, atMax) ==
    IF atMax THEN prev
    ELSE LET k == Max(Len(prev) - 1, 0)
         IN  SubSeq(prev, 1, k)
               \o << [nodes |-> 4, activation |-> "ReLU"] >>
               \o SubSeq(prev, k + 1, Len(prev))

\* variant: the filter drops the layer after idx
removeLayerNext(prev, idx) ==
    LET F[i \in 0..Len(prev)] ==
            IF i = 0 THEN << >>
            ELSE IF (i - 1) # idx + 1 THEN Append(F[i - 1], At(prev, i - 1))
                 ELSE F[i - 1]
    IN  F[Len(prev)]

\* removeLayer, layers part: prev.filter((_, i) => i !== idx)
removeLayer(prev, idx) ==
    LET F[i \in 0..Len(prev)] ==
            IF i = 0 THEN << >>
            ELSE IF (i - 1) # idx THEN Append(F[i - 1], At(prev, i - 1))
                 ELSE F[i - 1]
    IN  F[Len(prev)]

\* variant: the selection is kept as it is
removeSelKeep(s, n) == s

\* variant: the selection is clamped to [0, n - 2]
removeSelLoose(s, n) == Max(0, Min(s, n - 2))

\* removeLayer, selection part: s => Math.max(1, Math.min(s, n - 3))
removeSel(s, n) == Max(1, Min(s, n - 3))

\* variant: the upper clamp is missing
clampNodesNoMax(nodes, delta) == Max(MIN_NODES, nodes + delta)

\* updateNodes: clamp nodes + delta of layer idx, other layers untouched
clampNodes(nodes, delta) == Max(MIN_NODES, Min(MAX_NODES, nodes + delta))

\* variant: the layer after idx is resized as well
updateNodesNext(prev, idx, delta) ==
    [ j \in 1..Len(prev) |->
        IF j - 1 = idx \/ j - 1 = idx + 1
        THEN [ prev[j] EXCEPT !.nodes = Max(MIN_NODES, Min(MAX_NODES, prev[j].nodes + delta)) ]
        ELSE prev[j] ]

updateNodes(prev, idx, delta) ==
    [ j \in 1..Len(prev) |->
        IF j - 1 = idx
        THEN [ prev[j] EXCEPT !.nodes = clampNodes(prev[j].nodes, delta) ]
        ELSE prev[j] ]

\* updateAct: replace activation of layer idx, other layers untouched
updateAct(prev, idx, act) ==
    [ j \in 1..Len(prev) |->
        IF j - 1 = idx THEN [ prev[j] EXCEPT !.activation = act ] ELSE prev[j] ]

\* variant: the loop stops one transition early
RECURSIVE computeLoopShort(_, _, _)
computeLoopShort(ls, i, acc) ==
    IF i < Len(ls) - 1
    THEN LET nin  == At(ls, i - 1).nodes
             nout == At(ls, i).nodes
         IN  computeLoopShort(ls, i + 1,
                 [ totalW |-> acc.totalW + nin * nout,
                   totalB |-> acc.totalB + nout,
                   breakdown |-> Append(acc.breakdown,
                       [ layer |-> i, nin |-> nin, nout |-> nout,
                         W |-> nin * nout, B |-> nout ]) ])
    ELSE acc

\* computeParams: for (i = 1; i < layers.length; i++) accumulating the totals
\* and pushing one breakdown entry per transition
RECURSIVE computeLoop(_, _, _)
computeLoop(ls, i, acc) ==
    IF i < Len(ls)
    THEN LET nin  == At(ls, i - 1).nodes
             nout == At(ls, i).nodes
             W    == nin * nout
             B    == nout
         IN  computeLoop(ls, i + 1,
                 [ totalW |-> acc.totalW + W,
                   totalB |-> acc.totalB + B,
                   breakdown |-> Append(acc.breakdown,
                       [ layer |-> i, nin |-> nin, nout |-> nout,
                         W |-> W, B |-> B ]) ])
    ELSE acc

computeParams(ls) ==
    LET r == computeLoop(ls, 1, [ totalW |-> 0, totalB |-> 0, breakdown |-> << >> ])
    IN  [ totalW |-> r.totalW, totalB |-> r.totalB,
          total |-> r.totalW + r.totalB, breakdown |-> r.breakdown ]

\* ------------------------------------------------------- formula strings
\* A LaTeX string is modelled as the sequence of its pieces; a piece is a
\* record [k, a, i]: kind, activation name (for "fn"), layer index (for "W"
\* and "b").
Piece(k, a, i) == [ k |-> k, a |-> a, i |-> i ]

\* fn of compTex: softmax for "Softmax", else sigma subscripted with the name
compFn(ac) ==
    IF ac = "Softmax" THEN Piece("fn", "softmax", 0) ELSE Piece("fn", ac, 0)

\* compTex loop: for (i = n - 1; i >= 1; i--)
\*   inner = `${fn}\!\bigl(W^{(${i})}${inner} + b^{(${i})}\bigr)`
RECURSIVE compLoop(_, _, _)
compLoop(ls, i, inner) ==
    IF i >= 1
    THEN compLoop(ls, i - 1,
             << compFn(At(ls, i).activation), Piece("open", "", 0), Piece("W", "", i) >>
               \o inner
               \o << Piece("plus", "", 0), Piece("b", "", i), Piece("close", "", 0) >>)
    ELSE inner

\* compTex: `f(x) = ${inner}` with inner starting as "x"
compTex(ls) ==
    << Piece("head", "", 0) >> \o compLoop(ls, Len(ls) - 1, << Piece("x", "", 0) >>)

\* ------------------------------------------------------- TransformCard
\* variant: the card of transition li + 1 is given layers li - 1 and li
transformCardShifted(ls, li) ==
    [ fromLayer |-> At(ls, Max(li - 1, 0)), toLayer |-> At(ls, li),
      layerIdx |-> li + 1, isLast |-> (li = Len(ls) - 2) ]

\* props App passes to the card of layers.slice(1)[li]
transformCard(ls, li) ==
    [ fromLayer |-> At(ls, li), toLayer |-> At(ls, li + 1),
      layerIdx |-> li + 1, isLast |-> (li = Len(ls) - 2) ]

\* the activation callout shows the no-non-linearity warning
identityWarning(card) == card.toLayer.activation = "Linear"

\* variant: rows and columns exchanged
weightShapeSwapped(card) ==
    [ rows |-> card.fromLayer.nodes, cols |-> card.toLayer.nodes ]

\* W^{(l)} \in R^{nout x nin}
weightShape(card) ==
    [ rows |-> card.toLayer.nodes, cols |-> card.fromLayer.nodes ]

\* the "Step-by-step dimension flow" callout: one entry per line, with the
\* exponent of R shown and, in the second line, the product written out
dimensionFlow(card) ==
    LET nin  == card.fromLayer.nodes
        nout == card.toLayer.nodes
        l    == card.layerIdx
    IN  << [ expr |-> "a_prev", l |-> l - 1, shape |-> nin,
             note |-> "input to this layer", product |-> << >> ],
           [ expr |-> "W a_prev", l |-> l, shape |-> nout,
             note |-> "product", product |-> << nout, nin, nin, 1, nout, 1 >> ],
           [ expr |-> "z", l |-> l, shape |-> nout,
             note |-> "add bias", product |-> << >> ],
           [ expr |-> "a", l |-> l, shape |-> nout,
             note |-> card.toLayer.activation, product |-> << >> ] >>

\* variant: K is read from the first layer
renderAppFirst(ls) ==
    IF Len(ls) = 0
    THEN [ n |-> 0, outputNodes |-> 0, totalW |-> 0, totalB |-> 0, total |-> 0 ]
    ELSE [ n |-> Len(ls), outputNodes |-> At(ls, 0).nodes,
           totalW |-> computeParams(ls).totalW, totalB |-> computeParams(ls).totalB,
           total |-> computeParams(ls).total ]

\* App render: n, outputNodes and the totals are recomputed from `layers`
\* (with an empty layer list layers[n - 1].nodes throws and nothing is shown)
renderApp(ls) ==
    IF Len(ls) = 0
    THEN [ n |-> 0, outputNodes |-> 0, totalW |-> 0, totalB |-> 0, total |-> 0 ]
    ELSE LET n == Len(ls)
             p == computeParams(ls)
         IN  [ n |-> n, outputNodes |-> At(ls, n - 1).nodes,
               totalW |-> p.totalW, totalB |-> p.totalB, total |-> p.total ]

\* -------------------------------------------------------------------- Init
\* gamma = 2 is 4 halves, eps = 0.1 is 10 hundredths
Init ==
    /\ layers = defaultLayers
    /\ sel = 1
    /\ view = renderApp(defaultLayers)
    /\ lossKey = "ce"
    /\ params = [ gamma |-> 4, eps |-> 10 ]
    /\ last = [ op |-> "init", idx |-> 0, delta |-> 0, act |-> "",
                before |-> defaultLayers, selBefore |-> 1, prevOp |-> "init",
                lossBefore |-> "ce", paramsBefore |-> [ gamma |-> 4, eps |-> 10 ],
                key |-> "", forced |-> FALSE ]
    /\ steps = 0

\* a command of the App: history of the call, then the render that follows it
Record(op, idx, delta, act) ==
    /\ last' = [ op |-> op, idx |-> idx, delta |-> delta, act |-> act,
                 before |-> layers, selBefore |-> sel, prevOp |-> last.op,
                 lossBefore |-> lossKey, paramsBefore |-> params,
                 key |-> "", forced |-> last.forced ]
    /\ steps' = steps + 1
    /\ view' = renderApp(layers')

\* The App component renders (and its controls exist) only while the layer
\* list is non-empty: render reads layers[n - 1].nodes.
Mounted == Len(layers) >= 1

CanStep == steps < MaxSteps /\ Mounted

\* ------------------------------------------------- handlers of the controls
\* variant: reset also restores the loss parameters
ResetAll ==
    /\ CanStep
    /\ layers' = defaultLayers
    /\ sel' = 1
    /\ lossKey' = lossKey
    /\ params' = [ gamma |-> 4, eps |-> 10 ]
    /\ Record("reset", 0, 0, "")

\* Reset button: reset()
Reset ==
    /\ CanStep
    /\ layers' = defaultLayers
    /\ sel' = 1
    /\ UNCHANGED lossVars
    /\ Record("reset", 0, 0, "")

\* Add Hidden Layer button (disabled={isAtMaxLayers}): addLayer()
AddLayer ==
    /\ CanStep
    /\ ~isAtMaxLayers(Len(layers))
    /\ layers' = addLayer(layers, isAtMaxLayers(Len(layers)))
    /\ sel' = sel
    /\ UNCHANGED lossVars
    /\ Record("add", 0, 0, "")

\* variant: only the input card is excluded
HiddenCardsAndOutput(n) == { i \in 0..(n - 1) : ~isInput(i) }

\* cards that carry a remove button / an activation selector
HiddenCards(n) == { i \in 0..(n - 1) : ~isInput(i) /\ ~isOutput(i, n) }

\* remove button of card idx: if (!isAtMinLayers) onRemove()
RemoveClick ==
    /\ CanStep
    /\ \E idx \in HiddenCards(Len(layers)) :
          /\ IF ~isAtMinLayers(Len(layers))
             THEN /\ layers' = removeLayer(layers, idx)
                  /\ sel' = removeSel(sel, Len(layers))
             ELSE /\ layers' = layers
                  /\ sel' = sel
          /\ UNCHANGED lossVars
          /\ Record("remove", idx, 0, "")

\* a - / + button is disabled when the layer is at MIN_NODES / MAX_NODES
minusDisabled(layer) == layer.nodes <= MIN_NODES
plusDisabled(layer) == layer.nodes >= MAX_NODES

\* - / + buttons of card idx: onNodeDelta(-1) / onNodeDelta(+1)
NodeDelta ==
    /\ CanStep
    /\ \E idx \in 0..(Len(layers) - 1), d \in {-1, 1} :
          /\ d = -1 => ~minusDisabled(At(layers, idx))
          /\ d = 1 => ~plusDisabled(At(layers, idx))
          /\ layers' = updateNodes(layers, idx, d)
          /\ sel' = sel
          /\ UNCHANGED lossVars
          /\ Record("resize", idx, d, "")

\* activation selector of card idx: onActivation(e.target.value)
Activation ==
    /\ CanStep
    /\ \E idx \in HiddenCards(Len(layers)) :
       \E act \in ACTIVATIONS \ { At(layers, idx).activation } :
          /\ layers' = updateAct(layers, idx, act)
          /\ sel' = sel
          /\ UNCHANGED lossVars
          /\ Record("setact", idx, 0, act)

\* click on a card or on a layer of the graph: setSel(li)
Select ==
    /\ CanStep
    /\ \E idx \in 0..(Len(layers) - 1) :
          /\ sel' = idx
          /\ layers' = layers
          /\ UNCHANGED lossVars
          /\ Record("select", idx, 0, "")

Next == Reset \/ AddLayer \/ RemoveClick \/ NodeDelta \/ Activation \/ Select

Spec == Init /\ [][Next]_vars

\* ------------------------------------- the App callbacks invoked directly
\* Each callback App hands to its children, called with any layer index and
\* any argument, without the control that normally triggers it.
CanCall == steps < MaxCalls /\ Mounted

\* reset()
CallReset ==
    /\ CanCall
    /\ layers' = defaultLayers
    /\ sel' = 1
    /\ UNCHANGED lossVars
    /\ Record("reset", 0, 0, "")

\* addLayer()
CallAddLayer ==
    /\ CanCall
    /\ layers' = addLayer(layers, isAtMaxLayers(Len(layers)))
    /\ sel' = sel
    /\ UNCHANGED lossVars
    /\ Record("add", 0, 0, "")

\* updateNodes(idx, delta) with any layer index and any delta
CallUpdateNodes ==
    /\ CanCall
    /\ \E idx \in 0..(Len(layers) - 1), d \in (-MaxDelta)..MaxDelta :
          /\ layers' = updateNodes(layers, idx, d)
          /\ sel' = sel
          /\ UNCHANGED lossVars
          /\ Record("updateNodes", idx, d, "")

\* updateAct(idx, act) with any layer index
CallUpdateAct ==
    /\ CanCall
    /\ \E idx \in 0..(Len(layers) - 1), act \in ACTIVATIONS :
          /\ layers' = updateAct(layers, idx, act)
          /\ sel' = sel
          /\ UNCHANGED lossVars
          /\ Record("updateAct", idx, 0, act)

\* removeLayer(idx) with any layer index
CallRemoveLayer ==
    /\ CanCall
    /\ \E idx \in 0..(Len(layers) - 1) :
          /\ layers' = removeLayer(layers, idx)
          /\ sel' = removeSel(sel, Len(layers))
          /\ UNCHANGED lossVars
          /\ Record("removeLayer", idx, 0, "")

\* setSel(li)
CallSetSel ==
    /\ CanCall
    /\ \E idx \in 0..(Len(layers) - 1) :
          /\ sel' = idx
          /\ layers' = layers
          /\ UNCHANGED lossVars
          /\ Record("select", idx, 0, "")

NextApi ==
    \/ CallReset \/ CallAddLayer \/ CallUpdateNodes \/ CallUpdateAct
    \/ CallRemoveLayer \/ CallSetSel
    \/ (CanCall /\ RemoveClick) \/ (CanCall /\ Activation)

SpecApi == Init /\ [][NextApi]_vars

\* ------------------------------- guards read from the closure of a render
\* addLayer and the remove button read isAtMaxLayers / isAtMinLayers, the
\* cards and n from the closure of the last render (`view`), while the
\* updaters setLayers(prev => ...) and setSel(s => ...) are queued and
\* applied to the latest state (`layers`, `sel`).  A handler returns
\* without a commit; the re-render is a later step, and until it happens
\* the handlers of the render on screen remain the ones that are called.
CanBatch == steps < MaxBatchSteps /\ Mounted

RecordBatch(op, idx) ==
    /\ last' = [ op |-> op, idx |-> idx, delta |-> 0, act |-> "",
                 before |-> layers, selBefore |-> sel, prevOp |-> last.op,
                 lossBefore |-> lossKey, paramsBefore |-> params,
                 key |-> "", forced |-> last.forced ]
    /\ steps' = steps + 1
    /\ view' = view

\* Add Hidden Layer button of the last render (disabled={isAtMaxLayers}):
\* addLayer() with the isAtMaxLayers of that render
ClosureAddLayer ==
    /\ CanBatch
    /\ ~isAtMaxLayers(view.n)
    /\ layers' = addLayer(layers, isAtMaxLayers(view.n))
    /\ sel' = sel
    /\ UNCHANGED lossVars
    /\ RecordBatch("add", 0)

\* remove button of a card of the last render, with the isAtMinLayers and
\* the n of that render
ClosureRemoveClick ==
    /\ CanBatch
    /\ \E idx \in HiddenCards(view.n) :
          /\ IF ~isAtMinLayers(view.n)
             THEN /\ layers' = removeLayer(layers, idx)
                  /\ sel' = removeSel(sel, view.n)
             ELSE /\ layers' = layers
                  /\ sel' = sel
          /\ UNCHANGED lossVars
          /\ RecordBatch("remove", idx)

\* the commit that follows: App derives n, outputNodes, the totals and the
\* guards anew from the latest state
Render ==
    /\ Mounted
    /\ view # renderApp(layers)
    /\ view' = renderApp(layers)
    /\ UNCHANGED <<layers, sel, last, steps, lossKey, params>>

NextBatch == ClosureAddLayer \/ ClosureRemoveClick \/ Render

\* React always performs the render it has scheduled
SpecBatch == Init /\ [][NextBatch]_vars /\ WF_vars(Render)

\* ------------------------------------------------------------ LossPanel
\* LOSSES: requiresBinary and params of each entry.  A parameter is kept in
\* units of its slider step (gamma: 0.5, eps: 0.01), so gamma runs 0..10
\* with default 4 and eps runs 1..30 with default 10.
LOSSES ==
    [ ce    |-> [ requiresBinary |-> FALSE, params |-> {} ],
      bce   |-> [ requiresBinary |-> TRUE,  params |-> {} ],
      focal |-> [ requiresBinary |-> FALSE,
                  params |-> { [ key |-> "gamma", min |-> 0, max |-> 10, dflt |-> 4 ] } ],
      ls    |-> [ requiresBinary |-> FALSE,
                  params |-> { [ key |-> "eps", min |-> 1, max |-> 30, dflt |-> 10 ] } ] ]

\* `${x}` of a number: sign, integer part and the decimal digits JavaScript
\* prints (no trailing zeros, no point when there are none).
\* K is an integer.
fmtInt(k) ==
    [ neg |-> k < 0, whole |-> IF k < 0 THEN -k ELSE k, frac |-> << >> ]

\* gamma, kept in halves: 4 prints "2", 1 prints "0.5", -1 prints "-0.5"
fmtHalves(g) ==
    LET a == IF g < 0 THEN -g ELSE g
    IN  [ neg |-> g < 0, whole |-> a \div 2,
          frac |-> IF a % 2 = 0 THEN << >> ELSE << 5 >> ]

\* eps, kept in hundredths: 10 prints "0.1", 1 prints "0.01", 31 prints "0.31"
fmtHundredths(e) ==
    LET a == IF e < 0 THEN -e ELSE e
        r == a % 100
    IN  [ neg |-> e < 0, whole |-> a \div 100,
          frac |-> IF r = 0 THEN << >>
                   ELSE IF r % 10 = 0 THEN << r \div 10 >>
                   ELSE << r \div 10, r % 10 >> ]

\* A formula string is its template and the values substituted into it, in
\* the order in which they appear in the string.
\* variant: focal prints the catalogue default of gamma
fullFormulaDefault(key, K, p) ==
    CASE key = "ce"    -> [ tpl |-> "ce", slots |-> << fmtInt(K) >> ]
      [] key = "bce"   -> [ tpl |-> "bce", slots |-> << >> ]
      [] key = "focal" -> [ tpl |-> "focal", slots |-> << fmtInt(K), fmtHalves(4) >> ]
      [] key = "ls"    -> [ tpl |-> "ls",
                            slots |-> << fmtHundredths(p.eps), fmtHundredths(p.eps),
                                         fmtInt(K), fmtInt(K) >> ]

\* LOSSES[key].fullFormula(K, p)
\*   ce:    -\sum_{i=1}^{K} y_i \log \hat{y}_i
\*   bce:   no substitution
\*   focal: -\sum_{i=1}^{K} y_i (1-\hat{y}_i)^{gamma} \log \hat{y}_i
\*   ls:    \tilde{y}_i = (1-eps) y_i + \tfrac{eps}{K}, -\sum_{i=1}^{K} ...
fullFormula(key, K, p) ==
    CASE key = "ce"    -> [ tpl |-> "ce", slots |-> << fmtInt(K) >> ]
      [] key = "bce"   -> [ tpl |-> "bce", slots |-> << >> ]
      [] key = "focal" -> [ tpl |-> "focal", slots |-> << fmtInt(K), fmtHalves(p.gamma) >> ]
      [] key = "ls"    -> [ tpl |-> "ls",
                            slots |-> << fmtHundredths(p.eps), fmtHundredths(p.eps),
                                         fmtInt(K), fmtInt(K) >> ]

\* variant: the coefficient of the correction term is the default of gamma
gradFormulaDefault(key, K, p) ==
    CASE key = "ce"    -> [ tpl |-> "ce.grad", slots |-> << >> ]
      [] key = "bce"   -> [ tpl |-> "bce.grad", slots |-> << >> ]
      [] key = "focal" -> [ tpl |-> "focal.grad",
                            slots |-> << fmtHalves(p.gamma), fmtHalves(4),
                                         fmtHalves(Max(0, p.gamma - 2)) >> ]
      [] key = "ls"    -> [ tpl |-> "ls.grad", slots |-> << >> ]

\* LOSSES[key].gradFormula(K, p)
\*   ce:    \hat{y}_i - y_i
\*   focal: (1-\hat{y})^{gamma}(\hat{y}_i - y_i)
\*            - gamma (1-\hat{y})^{Math.max(0, gamma - 1)} \log(\hat{y}) \hat{y} (\delta - \hat{y}_i)
\* (gamma - 1 is gamma - 2 in halves)
gradFormula(key, K, p) ==
    CASE key = "ce"    -> [ tpl |-> "ce.grad", slots |-> << >> ]
      [] key = "bce"   -> [ tpl |-> "bce.grad", slots |-> << >> ]
      [] key = "focal" -> [ tpl |-> "focal.grad",
                            slots |-> << fmtHalves(p.gamma), fmtHalves(p.gamma),
                                         fmtHalves(Max(0, p.gamma - 2)) >> ]
      [] key = "ls"    -> [ tpl |-> "ls.grad", slots |-> << >> ]

LossKeys == DOMAIN LOSSES

\* LossPanel render, Formula tab: <T d tex={loss.fullFormula(K, params)} />
\* and <T d tex={loss.gradFormula(K, params)} /> with K the prop from App
shownFormula == fullFormula(lossKey, view.outputNodes, params)
shownGrad == gradFormula(lossKey, view.outputNodes, params)

\* variant: every loss but ce is tied to K = 2
isDisabledWide(key, K) == key # "ce" /\ K # 2

\* isDisabled = (key) => LOSSES[key].requiresBinary && K !== 2
isDisabled(key, K) == LOSSES[key].requiresBinary /\ K # 2

\* variant: the effect leaves the loss as it is
effectTargetKeep(key, K) == key

\* variant: the effect sends a binary-only loss to focal
effectTargetFocal(key, K) ==
    IF LOSSES[key].requiresBinary /\ K # 2 THEN "focal" ELSE key

\* body of the effect: if (LOSSES[lossKey].requiresBinary && K !== 2) "ce"
effectTarget(key, K) ==
    IF LOSSES[key].requiresBinary /\ K # 2 THEN "ce" ELSE key

\* The effect has dependencies [K, lossKey] and runs after the render in
\* which one of them changed.  A run that finds its condition false changes
\* nothing, so only the runs that set the loss are steps of the model.
EffectPending == effectTarget(lossKey, view.outputNodes) # lossKey

\* values a slider can deliver: ends of the range, one step from the lower
\* end, and the catalogue default
SliderInputs(p) == { p.min, p.min + 1, p.dflt, p.max }

\* variant: every parameter is written
setParamAll(ps, key, val) == [ k \in DOMAIN ps |-> val ]

\* setParam = (key, val) => setParams(p => ({ ...p, [key]: val }))
setParam(ps, key, val) == [ ps EXCEPT ![key] = val ]

RecordLoss(op, key, val) ==
    /\ last' = [ op |-> op, idx |-> 0, delta |-> val, act |-> "",
                 before |-> layers, selBefore |-> sel, prevOp |-> last.op,
                 lossBefore |-> lossKey, paramsBefore |-> params,
                 key |-> key, forced |-> last.forced ]
    /\ view' = renderApp(layers')

\* Passive effects are flushed before the next event is handled, so a
\* command is taken only when no effect is pending.
CanLossStep == steps < MaxLossSteps /\ Mounted /\ ~EffectPending

\* loss button: onClick = () => { if (!disabled) setLossKey(key); }
SelectLoss ==
    /\ CanLossStep
    /\ \E key \in LossKeys :
          /\ lossKey' = IF ~isDisabled(key, view.outputNodes) THEN key ELSE lossKey
          /\ UNCHANGED <<layers, sel, params>>
          /\ RecordLoss("selectLoss", key, 0)
          /\ steps' = steps + 1

\* slider of a parameter of the active loss: onChange -> setParam(p.key, value)
SetParam ==
    /\ CanLossStep
    /\ \E p \in LOSSES[lossKey].params :
          \E v \in SliderInputs(p) :
              /\ v # params[p.key]
              /\ params' = setParam(params, p.key, v)
              /\ UNCHANGED <<layers, sel, lossKey>>
              /\ RecordLoss("setParam", p.key, v)
              /\ steps' = steps + 1

\* useEffect(() => { if (...) setLossKey("ce"); }, [K, lossKey])
RunEffect ==
    /\ Mounted /\ EffectPending
    /\ lossKey' = effectTarget(lossKey, view.outputNodes)
    /\ UNCHANGED <<layers, sel, params, steps>>
    /\ last' = [ op |-> "effect", idx |-> 0, delta |-> 0, act |-> "",
                 before |-> layers, selBefore |-> sel, prevOp |-> last.op,
                 lossBefore |-> lossKey, paramsBefore |-> params,
                 key |-> "", forced |-> TRUE ]
    /\ view' = renderApp(layers')

NextLoss ==
    \/ SelectLoss \/ SetParam \/ RunEffect
    \/ (CanLossStep /\ Reset) \/ (CanLossStep /\ AddLayer)
    \/ (CanLossStep /\ RemoveClick) \/ (CanLossStep /\ NodeDelta)
    \/ (CanLossStep /\ Activation)

SpecLoss == Init /\ [][NextLoss]_vars

\* ------------------------------------- setParam invoked directly
\* every parameter declared in the catalogue
LossParams == UNION { LOSSES[k].params : k \in LossKeys }

\* both parameters within their declared [min, max]
InRange(ps) == \A p \in LossParams : ps[p.key] \in p.min..p.max

\* arguments of a direct call: the ends of the range and one step past each
CallInputs(p) == { p.min - 1, p.min, p.max, p.max + 1 }

\* setParam(key, val) called without the slider, for any declared key
CallSetParam ==
    /\ CanLossStep
    /\ \E p \in LossParams :
          \E v \in CallInputs(p) :
              /\ params' = setParam(params, p.key, v)
              /\ UNCHANGED <<layers, sel, lossKey>>
              /\ RecordLoss("callSetParam", p.key, v)
              /\ steps' = steps + 1

NextLossApi == SelectLoss \/ SetParam \/ CallSetParam

SpecLossApi == Init /\ [][NextLossApi]_vars

\* the effect is always run by React once it is scheduled
SpecLossFair == SpecLoss /\ WF_vars(RunEffect)

\* ==================================================================
\* Properties
\* ==================================================================
Widths(ls) == [ j \in 1..Len(ls) |-> ls[j].nodes ]
Acts(ls) == [ j \in 1..Len(ls) |-> ls[j].activation ]
LastOf(ls) == ls[Len(ls)]

\* C1: in every state reachable through the controls the number of layers
\* L satisfies 3 <= L <= 6.
C1_LayerCountBounds == 3 <= Len(layers) /\ Len(layers) <= 6

\* C1 witness: a remove button was clicked at the lower bound L = 3 and L
\* is still 3.
C1_Witness ==
    last.op = "remove" /\ Len(last.before) = 3 /\ Len(layers) = 3

\* C2: updateNodes never produces a width outside [1,8]: for every layer
\* index and every delta the new width is min(8, max(1, width + delta)), a
\* +1 at width 8 and a -1 at width 1 leave the width unchanged, and every
\* layer width is in [1,8] in every reachable state.
C2_ResizeClamps ==
    /\ \A j \in 1..Len(layers) : layers[j].nodes \in 1..8
    /\ last.op = "updateNodes" =>
         LET w == At(last.before, last.idx).nodes
             r == At(layers, last.idx).nodes
             t == IF w + last.delta < 1 THEN 1 ELSE w + last.delta
         IN  /\ r = (IF t > 8 THEN 8 ELSE t)
             /\ (w = 8 /\ last.delta = 1) => r = 8
             /\ (w = 1 /\ last.delta = -1) => r = 1

\* C2 witness: updateNodes(idx, +1) was called on a layer of width 8.
C2_Witness ==
    /\ last.op = "updateNodes" /\ last.delta = 1
    /\ At(last.before, last.idx).nodes = 8
    /\ At(layers, last.idx).nodes = 8

\* C3: in every reachable state the last layer's activation is Softmax and
\* every hidden layer's activation is one of ReLU, Sigmoid, Tanh, Linear;
\* no command changes the output layer's activation or moves the Softmax
\* layer away from the last position.
C3_SoftmaxLast ==
    /\ LastOf(layers).activation = "Softmax"
    /\ \A i \in 1..(Len(layers) - 2) :
          At(layers, i).activation \in {"ReLU", "Sigmoid", "Tanh", "Linear"}
    /\ LastOf(layers).activation = LastOf(last.before).activation

\* C3 witness: the activation of the hidden layer next to the output layer
\* has just been changed.
C3_Witness ==
    /\ last.op = "setact" /\ last.idx = Len(layers) - 2
    /\ At(layers, last.idx).activation # At(last.before, last.idx).activation

\* C4 as stated: setActivation on the input layer (0) or the output layer
\* (L-1) fails and leaves the architecture unchanged.
C4_Original ==
    (last.op = "updateAct" /\ last.idx \in {0, Len(last.before) - 1})
        => layers = last.before

\* C5 as stated: a removal is rejected, leaving the architecture unchanged,
\* whenever L <= 3 or the index is the input layer or the output layer.
C5_Original ==
    (/\ last.op \in {"remove", "removeLayer"}
     /\ \/ Len(last.before) <= 3
        \/ last.idx = 0
        \/ last.idx = Len(last.before) - 1)
        => layers = last.before

\* C6: when L > 3 and index is a hidden layer, the removal yields L-1
\* layers, the layers before index unchanged and every layer formerly at
\* j > index now at j-1 with the same width and activation.
C6_RemoveShifts ==
    (last.op = "remove" /\ Len(last.before) > 3) =>
        /\ Len(layers) = Len(last.before) - 1
        /\ \A j \in 0..(last.idx - 1) : At(layers, j) = At(last.before, j)
        /\ \A j \in (last.idx + 1)..(Len(last.before) - 1) :
              At(layers, j - 1) = At(last.before, j)

\* C6 witness: the first of three hidden layers was removed, so two hidden
\* layers and the output layer moved down.
C6_Witness ==
    /\ last.op = "remove" /\ Len(last.before) = 5 /\ last.idx = 1
    /\ Len(layers) = 4

\* C7: when L < 6 the insertion yields L+1 layers, the new layer at index
\* L-1 has width 4 and activation ReLU, layers 0..L-2 are the previous
\* layers 0..L-2 and the last layer is the previous output layer.
C7_InsertBeforeOutput ==
    (last.op = "add" /\ Len(last.before) < 6) =>
        LET L == Len(last.before)
        IN  /\ Len(layers) = L + 1
            /\ At(layers, L - 1) = [nodes |-> 4, activation |-> "ReLU"]
            /\ \A j \in 0..(L - 2) : At(layers, j) = At(last.before, j)
            /\ At(layers, L) = At(last.before, L - 1)

\* C7 witness: a layer was inserted into a five-layer architecture.
C7_Witness ==
    last.op = "add" /\ Len(last.before) = 5 /\ Len(layers) = 6

\* C8: addLayer issued when L = 6 is a no-op: same widths, same
\* activations, same order, and the selected layer index is unchanged.
C8_InsertAtMaxNoop ==
    (last.op = "add" /\ Len(last.before) = 6) =>
        /\ Len(layers) = 6
        /\ Widths(layers) = Widths(last.before)
        /\ Acts(layers) = Acts(last.before)
        /\ sel = last.selBefore

\* C8 witness: addLayer was called on a six-layer architecture.
C8_Witness ==
    last.op = "add" /\ Len(last.before) = 6

\* C9: reset, from any reachable state, yields exactly 4 layers of widths
\* 3, 5, 4, 2 with hidden activations ReLU, Tanh and output Softmax; a
\* reset that follows a reset changes nothing.
C9_ResetCanonical ==
    last.op = "reset" =>
        /\ Widths(layers) = <<3, 5, 4, 2>>
        /\ At(layers, 1).activation = "ReLU"
        /\ At(layers, 2).activation = "Tanh"
        /\ At(layers, 3).activation = "Softmax"
        /\ last.prevOp = "reset" => (layers = last.before /\ sel = last.selBefore)

\* C9 witness: reset was applied to an architecture of another shape.
C9_Witness ==
    /\ last.op = "reset"
    /\ Len(last.before) # 4
    /\ Widths(layers) = <<3, 5, 4, 2>>

\* sums over the transitions 1..k of a width vector
RECURSIVE SumWeights(_, _)
SumWeights(w, k) == IF k = 0 THEN 0 ELSE SumWeights(w, k - 1) + w[k] * w[k + 1]
RECURSIVE SumBiases(_, _)
SumBiases(w, k) == IF k = 0 THEN 0 ELSE SumBiases(w, k - 1) + w[k + 1]

\* C10: computeParams returns exactly L-1 transitions, transition i having
\* weight count width[i-1] * width[i] and bias count width[i]; the totals
\* are the sums of these, total = totalW + totalB, all are non-negative
\* integers, and widths [3,5,4,2] give 43 weights, 11 biases, 54 in total.
C10_ParameterCounts ==
    LET r == computeParams(layers)
        w == Widths(layers)
        L == Len(layers)
    IN  /\ Len(r.breakdown) = L - 1
        /\ \A i \in 1..(L - 1) :
              /\ r.breakdown[i].layer = i
              /\ r.breakdown[i].W = w[i] * w[i + 1]
              /\ r.breakdown[i].B = w[i + 1]
        /\ r.totalW = SumWeights(w, L - 1)
        /\ r.totalB = SumBiases(w, L - 1)
        /\ r.total = r.totalW + r.totalB
        /\ r.totalW \in Nat /\ r.totalB \in Nat /\ r.total \in Nat
        /\ w = <<3, 5, 4, 2>> =>
              (r.totalW = 43 /\ r.totalB = 11 /\ r.total = 54)

\* C10 witness: a five-layer architecture with a resized layer, whose
\* parameter total differs from the default's.
C10_Witness ==
    /\ Len(layers) = 5
    /\ Widths(layers) # <<3, 5, 4, 4, 2>>
    /\ computeParams(layers).total # 54
    /\ Len(computeParams(layers).breakdown) = 4

\* C11 as stated: the composition nests L-1 wrappers in forward-pass
\* order: the outermost is softmax with W and b of layer L-1, the wrapper of
\* layer i directly encloses the wrapper of layer i-1, and the innermost is
\* layer 1's activation with W^(1) applied directly to x.
C11_ForwardOrder ==
    LET t   == compTex(layers)
        L   == Len(layers)
        Ws  == SelectSeq(t, LAMBDA e : e.k = "W")
        Fns == SelectSeq(t, LAMBDA e : e.k = "fn")
        Bs  == SelectSeq(t, LAMBDA e : e.k = "b")
    IN  /\ Len(Fns) = L - 1 /\ Len(Ws) = L - 1 /\ Len(Bs) = L - 1
        /\ Fns[1].a = "softmax"
        /\ \A j \in 1..(L - 1) :
              /\ Ws[j].i = L - j
              /\ Fns[j] = compFn(At(layers, L - j).activation)
              /\ Bs[j].i = j
        /\ \E q \in 2..Len(t) : t[q].k = "x" /\ t[q - 1] = Piece("W", "", 1)

\* the loss commands and the architecture commands, as recorded in last.op
LossOps == { "selectLoss", "setParam" }
ArchOps == { "reset", "add", "remove", "resize", "setact" }

\* K of the render in which the last command was issued
KBefore == LastOf(last.before).nodes

\* C12: select(id) is a no-op when id is the binary-only loss and K is not
\* 2; in every other case it makes id the active loss.
C12_SelectGuard ==
    last.op = "selectLoss" =>
        IF last.key = "bce" /\ KBefore # 2
        THEN /\ lossKey = last.lossBefore /\ params = last.paramsBefore
             /\ layers = last.before /\ sel = last.selBefore
        ELSE lossKey = last.key

\* C12 witness: with Focal active and K different from 2, BCE was clicked
\* and nothing changed.
C12_Witness ==
    /\ last.op = "selectLoss" /\ last.key = "bce" /\ KBefore # 2
    /\ last.lossBefore = "focal" /\ lossKey = "focal"

\* C13: whenever BCE is active and K is not 2 (a mutation has moved K away
\* from 2), the active loss becomes ce, and it does so by the next step of
\* the program, which is not a user command and changes no layer.
C13_ForcedRevert ==
    /\ (lossKey = "bce" /\ view.outputNodes # 2) ~> (lossKey = "ce")
    /\ [][ (lossKey = "bce" /\ view.outputNodes # 2)
             => (lossKey' = "ce" /\ steps' = steps /\ layers' = layers) ]_vars

\* C13 witness: BCE was active, the output layer was resized away from 2,
\* and the effect has set the loss to ce.
C13_Witness ==
    /\ last.op = "effect" /\ last.prevOp = "resize"
    /\ last.lossBefore = "bce" /\ lossKey = "ce" /\ view.outputNodes # 2

\* C14: the active loss changes only by an accepted select or by the forced
\* move to ce; an architecture command leaves it as it was, and when it is
\* ce, focal or ls no forced move follows; so after a forced revert,
\* resizing the output back to K = 2 does not bring BCE back.
C14_LossFrame ==
    /\ lossKey # last.lossBefore =>
          \/ /\ last.op = "selectLoss" /\ lossKey = last.key
             /\ ~(last.key = "bce" /\ KBefore # 2)
          \/ /\ last.op = "effect" /\ lossKey = "ce"
             /\ last.lossBefore = "bce" /\ view.outputNodes # 2
    /\ last.op \in ArchOps => lossKey = last.lossBefore
    /\ lossKey \in { "ce", "focal", "ls" } => ~ENABLED RunEffect
    /\ (last.forced /\ last.prevOp = "effect" /\ last.op = "resize") => lossKey = "ce"

\* C14 witness: after a forced revert the output layer has been resized
\* back to width 2 and ce is still the active loss.
C14_Witness ==
    /\ last.forced /\ last.prevOp = "effect" /\ last.op = "resize"
    /\ KBefore # 2 /\ view.outputNodes = 2 /\ lossKey = "ce"

\* C15: BCE is selectable exactly when K = 2, and CE, Focal and Label
\* Smoothing are selectable for every K in 1..8; K itself stays in 1..8.
C15_Selectable ==
    /\ view.outputNodes \in MIN_NODES..MAX_NODES
    /\ LossKeys = { "ce", "bce", "focal", "ls" }
    /\ \A K \in MIN_NODES..MAX_NODES :
          /\ ~isDisabled("bce", K) <=> (K = 2)
          /\ \A key \in { "ce", "focal", "ls" } : ~isDisabled(key, K)
    /\ (last.op = "selectLoss" /\ last.key # "bce") => lossKey = last.key
    /\ (last.op = "selectLoss" /\ last.key = "bce") =>
          ((lossKey = "bce") <=> (KBefore = 2 \/ last.lossBefore = "bce"))

\* C15 witness: the output layer had width 3, where BCE is not selectable,
\* and has just been resized to 2, where it is.
C15_Witness ==
    /\ last.op = "resize" /\ KBefore = 3 /\ view.outputNodes = 2
    /\ isDisabled("bce", KBefore) /\ ~isDisabled("bce", view.outputNodes)

\* C16: in every state shown after a command the selected layer index lies
\* in [0, L-1] for the current L; after a removal it has been re-clamped.
C16_SelectionInRange ==
    /\ sel \in 0..(Len(layers) - 1)
    /\ (last.op = "remove" /\ Len(layers) < Len(last.before)) =>
          sel = (IF last.selBefore > Len(layers) - 2 THEN Len(layers) - 2
                 ELSE IF last.selBefore < 1 THEN 1 ELSE last.selBefore)

\* C16 witness: the output layer was selected and a hidden layer was then
\* removed, so the old index is past the end of the new architecture.
C16_Witness ==
    /\ last.op = "remove" /\ Len(layers) < Len(last.before)
    /\ last.selBefore = Len(last.before) - 1
    /\ last.selBefore > Len(layers) - 1

\* C17: in every state shown, K and the totals are those of the current
\* architecture: K is the width of the current last layer and the totals
\* are computeParams of the current layers.
C17_DerivedFromCurrent ==
    /\ view.n = Len(layers)
    /\ view.outputNodes = LastOf(layers).nodes
    /\ view.totalW = SumWeights(Widths(layers), Len(layers) - 1)
    /\ view.totalB = SumBiases(Widths(layers), Len(layers) - 1)
    /\ view.total = view.totalW + view.totalB

\* C17 witness: the output layer has just been resized, so K and the
\* totals differ from those of the previous architecture.
C17_Witness ==
    /\ last.op = "resize" /\ last.idx = Len(layers) - 1
    /\ view.outputNodes # LastOf(last.before).nodes
    /\ view.total # computeParams(last.before).total

\* C18: selecting a loss or setting a loss parameter changes no layer
\* width or activation, nor the layer count or K; no architecture command,
\* reset included, changes gamma or eps.
C18_LossArchIndependent ==
    /\ last.op \in LossOps =>
          /\ layers = last.before
          /\ view = renderApp(last.before)
    /\ last.op \in ArchOps => params = last.paramsBefore

\* C18 witness: gamma was moved off its default and the architecture was
\* then reset: the layers are the default again, gamma is not.
C18_Witness ==
    /\ last.op = "reset" /\ last.prevOp = "setParam"
    /\ last.before # defaultLayers /\ layers = defaultLayers
    /\ params.gamma # 4

\* C19: for every transition l in 1..L-1 the identity-activation warning is
\* shown exactly when layer l's activation is Linear; it is never shown for
\* the output layer.
C19_WarningIffLinear ==
    /\ \A l \in 1..(Len(layers) - 1) :
          identityWarning(transformCard(layers, l - 1))
              <=> (At(layers, l).activation = "Linear")
    /\ ~identityWarning(transformCard(layers, Len(layers) - 2))

\* C19 witness: a hidden layer has just been set to Linear and its card
\* carries the warning, while the card of another hidden layer does not.
C19_Witness ==
    /\ last.op = "setact" /\ last.act = "Linear"
    /\ identityWarning(transformCard(layers, last.idx - 1))
    /\ \E l \in 1..(Len(layers) - 2) :
          ~identityWarning(transformCard(layers, l - 1))

\* C20: for every transition l in 1..L-1 the weight matrix W^(l) is shown
\* with shape nOut x nIn, nIn the width of layer l-1 and nOut the width of
\* layer l, and the dimension flow has exactly four steps with shapes nIn,
\* nOut, nOut, nOut in that order.
C20_ShapesAndTrace ==
    \A l \in 1..(Len(layers) - 1) :
        LET c    == transformCard(layers, l - 1)
            nIn  == Widths(layers)[l]
            nOut == Widths(layers)[l + 1]
            f    == dimensionFlow(c)
        IN  /\ c.layerIdx = l
            /\ weightShape(c) = [ rows |-> nOut, cols |-> nIn ]
            /\ Len(f) = 4
            /\ << f[1].shape, f[2].shape, f[3].shape, f[4].shape >>
                   = << nIn, nOut, nOut, nOut >>
            /\ f[2].product = << nOut, nIn, nIn, 1, nOut, 1 >>

\* C20 witness: a six-layer architecture whose first hidden layer has just
\* been resized, so some transition has nIn different from nOut.
C20_Witness ==
    /\ Len(layers) = 6 /\ last.op = "resize" /\ last.idx = 1
    /\ weightShape(transformCard(layers, 1)).rows
         # weightShape(transformCard(layers, 1)).cols

HalvesOf(d) ==
    (IF d.neg THEN -1 ELSE 1) * (2 * d.whole + (IF d.frac = << 5 >> THEN 1 ELSE 0))
HundredthsOf(d) ==
    (IF d.neg THEN -1 ELSE 1)
      * (100 * d.whole
         + (IF Len(d.frac) = 0 THEN 0
            ELSE IF Len(d.frac) = 1 THEN 10 * d.frac[1]
            ELSE 10 * d.frac[1] + d.frac[2]))
PrintedZero == [ neg |-> FALSE, whole |-> 0, frac |-> << >> ]

\* C21: at gamma = 0 the focal gradient formula has exponent 0 on the
\* modulating factor and coefficient 0 on the correction term, so it
\* reduces to the residual yhat_i - y_i, the whole of the Cross-Entropy
\* gradient formula (which has no substituted value at all).
C21_FocalGradAtZero ==
    /\ gradFormula("ce", view.outputNodes, params).slots = << >>
    /\ (lossKey = "focal" /\ params.gamma = 0) =>
          /\ shownGrad.tpl = "focal.grad"
          /\ shownGrad.slots[1] = PrintedZero
          /\ shownGrad.slots[2] = PrintedZero

\* C21 witness: Focal Loss is active and its slider has just been moved
\* to gamma = 0.
C21_Witness ==
    /\ lossKey = "focal" /\ last.op = "setParam" /\ last.key = "gamma"
    /\ params.gamma = 0 /\ last.paramsBefore.gamma # 0

\* C22: the displayed formula carries the live values: for ce, focal and
\* ls every summation bound (and the denominator of the smoothing term) is
\* the current output width K, for focal the exponent is the current gamma,
\* for ls both occurrences of the smoothing mass are the current eps.
C22_LiveValues ==
    LET K == LastOf(layers).nodes
        f == shownFormula
    IN  /\ lossKey = "ce" => f.slots = << fmtInt(K) >> /\ f.slots[1].whole = K
        /\ lossKey = "focal" =>
              /\ Len(f.slots) = 2
              /\ f.slots[1].whole = K /\ f.slots[1].frac = << >>
              /\ HalvesOf(f.slots[2]) = params.gamma
        /\ lossKey = "ls" =>
              /\ Len(f.slots) = 4
              /\ HundredthsOf(f.slots[1]) = params.eps
              /\ HundredthsOf(f.slots[2]) = params.eps
              /\ f.slots[3].whole = K /\ f.slots[3].frac = << >>
              /\ f.slots[4] = f.slots[3]

\* C22 witness: Focal Loss is active with gamma moved off its default and
\* the output layer has just been resized.
C22_Witness ==
    /\ lossKey = "focal" /\ params.gamma # 4
    /\ last.op = "resize" /\ last.idx = Len(layers) - 1
    /\ LastOf(layers).nodes # LastOf(last.before).nodes
    /\ shownFormula.slots[1].whole = LastOf(layers).nodes

\* C24 as stated: in no rendered state is the active loss BCE while K is
\* not 2, the render that immediately follows the resize of the output
\* layer included.
C24_NoBceRender == ~(lossKey = "bce" /\ view.outputNodes # 2)

\* C25: the auto-revert stabilises: a state in which the effect has an
\* update to make is followed by one in which it has none, a single update
\* of the effect is enough to get there, and in every state where the
\* effect has nothing to update the active loss is BCE only if K = 2.
C25_EffectStabilises ==
    /\ [](~EffectPending => (lossKey = "bce" => view.outputNodes = 2))
    /\ [][EffectPending => ~EffectPending']_vars
    /\ EffectPending ~> ~EffectPending

\* C25 witness: the effect has just made its update and has nothing more
\* to do, with K still different from 2.
C25_Witness ==
    /\ last.op = "effect" /\ ~EffectPending
    /\ effectTarget(lossKey, view.outputNodes) = lossKey
    /\ lossKey # "bce" /\ view.outputNodes # 2 /\ steps >= 2

C27_SelHiddenAfterRemoval ==
    (last.op = "remove" /\ Len(layers) = Len(last.before) - 1) =>
        /\ sel \in 1..(Len(layers) - 2)
        /\ last.selBefore = 0 => sel = 1
        /\ last.selBefore = Len(last.before) - 1 => sel = Len(layers) - 2

\* C27 witness: the input layer was selected when a hidden layer was
\* removed, and the selection is now layer 1.
C27_Witness ==
    /\ last.op = "remove" /\ Len(layers) = Len(last.before) - 1
    /\ last.prevOp = "select" /\ last.selBefore = 0 /\ sel = 1

\* C28: a resize changes at most the width of the layer at its index: the
\* layer count, the width of every other layer, every activation, the
\* selected index and the loss hyperparameters are as before.
C28_ResizeFrame ==
    last.op = "resize" =>
        /\ Len(layers) = Len(last.before)
        /\ \A j \in 1..Len(layers) :
              /\ layers[j].activation = last.before[j].activation
              /\ j - 1 # last.idx => layers[j].nodes = last.before[j].nodes
        /\ sel = last.selBefore
        /\ params = last.paramsBefore

\* C28 witness: with eps moved off its default, the first hidden layer of
\* a four-layer architecture has just changed its width.
C28_Witness ==
    /\ last.op = "resize" /\ last.idx = 1
    /\ At(layers, 1).nodes # At(last.before, 1).nodes
    /\ params.eps # 10 /\ Len(layers) = 4

====
